---- MODULE Spec2Model ----
(***************************************************************************)
(* A model of the serde serializer of rust_xlsxwriter (src/serializer.rs): *)
(* the registry of serialization headers kept by a worksheet, the          *)
(* registration of headers and the traversal that writes the fields of a   *)
(* serde value into worksheet cells.                                       *)
(***************************************************************************)
EXTENDS Integers, Sequences, FiniteSets, TLC

(***************************************************************************)
(* Bounds of the model.  The grid and the text limit are those of Excel    *)
(* (1,048,576 rows, 16,384 columns, 32,767 characters), scaled down.       *)
(***************************************************************************)
RowMax == 5
ColMax == 8
MaxStringLen == 5
MaxSteps == 3
MaxRunSteps == 5
MaxWideSteps == 3
MaxDeepSteps == 17

(***************************************************************************)
(* ColNum is u16: column numbers are below ColNumLimit (2^16, scaled down  *)
(* with the grid).  overflow_checks is the build profile: with overflow    *)
(* checks (debug) an overflowing u16 addition panics, without them         *)
(* (release) it wraps.                                                     *)
(***************************************************************************)
ColNumLimit == 16

\* RowNum is u32: the number of values of a row number (2^32), scaled down;
\* it is above every row of the grid and above the rows the short runs reach.
RowNumLimit == 20

VARIABLE overflow_checks

(***************************************************************************)
(* Formats are opaque handles.  Option<Format> is NoFormat or a handle.    *)
(***************************************************************************)
NoFormat == "None"
DefaultFormat == "default"

(***************************************************************************)
(* The serde data model.  A value is a record                              *)
(*   t : the shape, n : its name, variant or scalar payload,               *)
(*   k : the keys of its fields, c : its children.                         *)
(* The children of a map are its keys and values in visiting order.        *)
(***************************************************************************)
Val(t, n, k, c) == [t |-> t, n |-> n, k |-> k, c |-> c]
Bool(b) == Val("bool", b, <<>>, <<>>)
Num(x) == Val("num", x, <<>>, <<>>)
Str(s) == Val("str", s, <<>>, <<>>)
Char(ch) == Val("char", ch, <<>>, <<>>)
Bytes == Val("bytes", "", <<>>, <<>>)
Some(v) == Val("some", "", <<>>, <<v>>)
None == Val("none", "", <<>>, <<>>)
Unit == Val("unit", "", <<>>, <<>>)
UnitStruct(name) == Val("unit_struct", name, <<>>, <<>>)
UnitVariant(variant) == Val("unit_variant", variant, <<>>, <<>>)
NewtypeStruct(v) == Val("newtype_struct", "", <<>>, <<v>>)
NewtypeVariant(variant, v) == Val("newtype_variant", variant, <<>>, <<v>>)
Struct(name, keys, values) == Val("struct", name, keys, values)
SeqOf(elements) == Val("seq", "", <<>>, elements)
Tuple(elements) == Val("tuple", "", <<>>, elements)
TupleStruct(elements) == Val("tuple_struct", "", <<>>, elements)
TupleVariant(variant, elements) == Val("tuple_variant", variant, <<>>, elements)
Map(entries) == Val("map", "", <<>>, entries)
StructVariant(variant, keys, values) == Val("struct_variant", variant, keys, values)

(***************************************************************************)
(* The worksheet: the SerializerState (headers, current_struct,            *)
(* current_field, current_col, current_row, cell_format) and the cells.    *)
(* err is the result of the call in progress and log the write requests    *)
(* it made to the grid, kept for the statement of the properties.          *)
(***************************************************************************)
Root == <<"", "">>

SerializerState_new ==
    [headers |-> <<>>,
     current_struct |-> "",
     current_field |-> "",
     current_col |-> 0,
     current_row |-> 0,
     cell_format |-> NoFormat,
     cells |-> <<>>,
     err |-> "Ok",
     log |-> <<>>]

(***************************************************************************)
(* The grid: Worksheet::check_dimensions_only and Worksheet::write /       *)
(* write_with_format.                                                      *)
(***************************************************************************)
check_dimensions_only(row, col) == row < RowMax /\ col < ColMax

write(ws, row, col, data, format) ==
    IF ~check_dimensions_only(row, col)
    THEN [ws EXCEPT !.err = "RowColumnLimitError"]
    ELSE IF data.t = "str" /\ Len(data.n) > MaxStringLen
    THEN [ws EXCEPT !.err = "MaxStringLengthExceeded"]
    ELSE [ws EXCEPT !.cells =
             (<<row, col>> :> [t |-> data.t, v |-> data.n, format |-> format]) @@ @]

(***************************************************************************)
(* SerializerState::is_known_field: the lookup of (current_struct,         *)
(* current_field); a hit loads the cursor and advances the entry's row.    *)
(***************************************************************************)
current_key(ws) == <<ws.current_struct, ws.current_field>>

\* Faulty variant: the lookup loads the cursor and leaves the entry's row as it is.
is_known_field_no_advance(ws) ==
    LET key == current_key(ws) IN
    IF key \notin DOMAIN ws.headers
    THEN [known |-> FALSE, ws |-> ws]
    ELSE LET field == ws.headers[key] IN
         [known |-> TRUE,
          ws |-> [ws EXCEPT !.current_col = field.col,
                            !.current_row = field.row,
                            !.cell_format = field.cell_format]]

\* Faulty variant: the lookup also moves the entry one column to the right.
is_known_field_moving(ws) ==
    LET key == current_key(ws) IN
    IF key \notin DOMAIN ws.headers
    THEN [known |-> FALSE, ws |-> ws]
    ELSE LET field == ws.headers[key] IN
         [known |-> TRUE,
          ws |-> [ws EXCEPT !.current_col = field.col,
                            !.current_row = field.row,
                            !.cell_format = field.cell_format,
                            !.headers[key].row = field.row + 1,
                            !.headers[key].col = field.col + 1]]

\* Faulty variant: an entry without cell format leaves the format of the
\* last lookup in place.
is_known_field_keep_format(ws) ==
    LET key == current_key(ws) IN
    IF key \notin DOMAIN ws.headers
    THEN [known |-> FALSE, ws |-> ws]
    ELSE LET field == ws.headers[key] IN
         [known |-> TRUE,
          ws |-> [ws EXCEPT !.current_col = field.col,
                            !.current_row = field.row,
                            !.cell_format = IF field.cell_format = NoFormat THEN @
                                            ELSE field.cell_format,
                            !.headers[key].row = field.row + 1]]

\* row + 1 does not fit in a u32.
row_overflows(row) == row + 1 >= RowNumLimit

\* row + 1, wrapped to 32 bits.
next_row(row) == (row + 1) % RowNumLimit

\* With overflow checks `field.row += 1` panics on the last u32 row, after
\* the cursor was loaded and before anything is written; without them the
\* entry's row wraps to 0.
is_known_field(ws) ==
    LET key == current_key(ws) IN
    IF key \notin DOMAIN ws.headers
    THEN [known |-> FALSE, ws |-> ws]
    ELSE LET field == ws.headers[key]
             loaded == [ws EXCEPT !.current_col = field.col,
                                  !.current_row = field.row,
                                  !.cell_format = field.cell_format]
         IN IF overflow_checks /\ row_overflows(field.row)
            THEN [known |-> FALSE, ws |-> [loaded EXCEPT !.err = "panic"]]
            ELSE [known |-> TRUE,
                  ws |-> [loaded EXCEPT !.headers[key].row = next_row(field.row)]]

\* Faulty variant: a value without a header is written at the cursor left by the
\* last known field.
serialize_to_worksheet_cell_no_return(ws, data, owner) ==
    LET r == is_known_field(ws)
        row == r.ws.current_row
        col == r.ws.current_col
        format == r.ws.cell_format
        w == write(r.ws, row, col, data, format)
    IN [w EXCEPT !.log = Append(@,
           [row |-> row, col |-> col, t |-> data.t, v |-> data.n,
            format |-> format, key |-> current_key(ws), owner |-> owner,
            ok |-> w.err = "Ok"])]

(***************************************************************************)
(* Worksheet::serialize_to_worksheet_cell.  owner is the (struct, field)   *)
(* that declares the value, recorded in the log only.                      *)
(***************************************************************************)
serialize_to_worksheet_cell(ws, data, owner) ==
    LET r == is_known_field(ws) IN
    IF ~r.known THEN r.ws
    ELSE LET row == r.ws.current_row
             col == r.ws.current_col
             format == r.ws.cell_format
             w == write(r.ws, row, col, data, format)
         IN [w EXCEPT !.log = Append(@,
                [row |-> row, col |-> col, t |-> data.t, v |-> data.n,
                 format |-> format, key |-> current_key(ws), owner |-> owner,
                 ok |-> w.err = "Ok"])]

serialize_str(ws, data, owner) == serialize_to_worksheet_cell(ws, Str(data), owner)

\* Faulty variant: an absent value is ignored.
serialize_none_ignored(ws, owner) == ws

serialize_none(ws, owner) == serialize_str(ws, "", owner)

(***************************************************************************)
(* impl Serializer for &mut Worksheet and the compound impls.              *)
(***************************************************************************)
RECURSIVE serialize(_, _, _)
RECURSIVE serialize_members(_, _, _, _)

\* Faulty variant: the result of the field's value is dropped and the struct
\* goes on.
SerializeStruct_serialize_field_ok(ws, key, value, owner) ==
    [serialize([ws EXCEPT !.current_field = key], value, owner) EXCEPT !.err = "Ok"]

SerializeStruct_serialize_field(ws, key, value, owner) ==
    serialize([ws EXCEPT !.current_field = key], value, owner)

\* Faulty variant: the element's result is dropped and the sequence goes on.
SerializeSeq_serialize_element_ok(ws, value, owner) ==
    LET ret == serialize(ws, value, owner) IN
    [ret EXCEPT !.current_row = @ + 1, !.err = "Ok"]

\* Faulty variant: the row added after an element is added to the row of
\* every entry too.
SerializeSeq_serialize_element_entries(ws, value, owner) ==
    LET ret == serialize(ws, value, owner)
        moved == [key \in DOMAIN ret.headers |->
                     [ret.headers[key] EXCEPT !.row = @ + 1]]
    IN [ret EXCEPT !.current_row = @ + 1, !.headers = moved]

\* With overflow checks `current_row += 1` panics on the last u32 row;
\* without them the cursor's row wraps to 0.  A panic of the element unwinds
\* past the increment.
SerializeSeq_serialize_element(ws, value, owner) ==
    LET ret == serialize(ws, value, owner) IN
    IF ret.err = "panic" THEN ret
    ELSE IF overflow_checks /\ row_overflows(ret.current_row)
    THEN [ret EXCEPT !.err = "panic"]
    ELSE [ret EXCEPT !.current_row = next_row(@)]

\* Faulty variant: the elements of a tuple are ignored.
SerializeTuple_serialize_element_ignored(ws, value, owner) == ws

SerializeTuple_serialize_element(ws, value, owner) == serialize(ws, value, owner)

SerializeTupleStruct_serialize_field(ws, value, owner) == serialize(ws, value, owner)

SerializeTupleVariant_serialize_field(ws, value, owner) == serialize(ws, value, owner)

SerializeMap_serialize_entry(ws, value, owner) == serialize(ws, value, owner)

SerializeStructVariant_serialize_field(ws, key, value, owner) ==
    LET k == serialize_str(ws, key, owner) IN
    IF k.err # "Ok" THEN k ELSE serialize(k, value, owner)

serialize_member(ws, v, i, owner) ==
    CASE v.t = "struct" ->
           SerializeStruct_serialize_field(ws, v.k[i], v.c[i], <<v.n, v.k[i]>>)
      [] v.t = "seq" -> SerializeSeq_serialize_element(ws, v.c[i], owner)
      [] v.t = "tuple" -> SerializeTuple_serialize_element(ws, v.c[i], owner)
      [] v.t = "tuple_struct" -> SerializeTupleStruct_serialize_field(ws, v.c[i], owner)
      [] v.t = "tuple_variant" -> SerializeTupleVariant_serialize_field(ws, v.c[i], owner)
      [] v.t = "map" -> SerializeMap_serialize_entry(ws, v.c[i], owner)
      [] v.t = "struct_variant" ->
           SerializeStructVariant_serialize_field(ws, v.k[i], v.c[i], owner)

\* The members of a compound value in order, stopping at the first error.
serialize_members(ws, v, i, owner) ==
    IF i > Len(v.c) \/ ws.err # "Ok" THEN ws
    ELSE serialize_members(serialize_member(ws, v, i, owner), v, i + 1, owner)

\* Faulty variant: the struct's type name is stored by the first struct only.
serialize_struct_once(ws, name) ==
    IF ws.current_struct = "" THEN [ws EXCEPT !.current_struct = name] ELSE ws

serialize_struct(ws, name) == [ws EXCEPT !.current_struct = name]

serialize_variant(ws, v, owner) ==
    LET s == serialize_str(ws, v.n, owner) IN
    IF s.err # "Ok" THEN s ELSE serialize_members(s, v, 1, owner)

\* Faulty variant: a newtype struct is ignored like a newtype variant.
serialize_newtype_ignored(ws, v, owner) ==
    CASE v.t \in {"bool", "num", "str"} -> serialize_to_worksheet_cell(ws, v, owner)
      [] v.t = "char" -> serialize_str(ws, v.n, owner)
      [] v.t = "bytes" -> ws
      [] v.t = "some" -> serialize(ws, v.c[1], owner)
      [] v.t \in {"none", "unit", "unit_struct"} -> serialize_none(ws, owner)
      [] v.t = "unit_variant" -> ws
      [] v.t = "newtype_struct" -> ws
      [] v.t = "newtype_variant" -> ws
      [] v.t = "struct" -> serialize_members(serialize_struct(ws, v.n), v, 1, owner)
      [] v.t \in {"seq", "tuple", "tuple_struct", "map"} ->
           serialize_members(ws, v, 1, owner)
      [] v.t \in {"tuple_variant", "struct_variant"} -> serialize_variant(ws, v, owner)

serialize(ws, v, owner) ==
    CASE v.t \in {"bool", "num", "str"} -> serialize_to_worksheet_cell(ws, v, owner)
      [] v.t = "char" -> serialize_str(ws, v.n, owner)
      [] v.t = "bytes" -> ws
      [] v.t = "some" -> serialize(ws, v.c[1], owner)
      [] v.t \in {"none", "unit", "unit_struct"} -> serialize_none(ws, owner)
      [] v.t = "unit_variant" -> ws
      [] v.t = "newtype_struct" -> serialize(ws, v.c[1], owner)
      [] v.t = "newtype_variant" -> ws
      [] v.t = "struct" -> serialize_members(serialize_struct(ws, v.n), v, 1, owner)
      [] v.t \in {"seq", "tuple", "tuple_struct", "map"} ->
           serialize_members(ws, v, 1, owner)
      [] v.t \in {"tuple_variant", "struct_variant"} -> serialize_variant(ws, v, owner)

\* Worksheet::serialize: one top-level call.
Worksheet_serialize(ws, data_structure) ==
    serialize([ws EXCEPT !.err = "Ok", !.log = <<>>], data_structure, Root)

(***************************************************************************)
(* CustomSerializeHeader and its builder methods.                          *)
(***************************************************************************)
CustomSerializeHeader_new(field_name) ==
    [field_name |-> field_name,
     header_name |-> field_name,
     header_format |-> NoFormat,
     cell_format |-> NoFormat,
     skip |-> FALSE,
     hide_headers |-> FALSE,
     row |-> 0,
     col |-> 0]

rename(h, name) == [h EXCEPT !.header_name = name]
set_header_format(h, format) == [h EXCEPT !.header_format = format]
set_cell_format(h, format) == [h EXCEPT !.cell_format = format]
skip(h, enable) == [h EXCEPT !.skip = enable]
hide_headers(h, enable) == [h EXCEPT !.hide_headers = enable]
\* Faulty variant: the format is stored as the format of the data cells.
new_with_format_cell(field_name, format) ==
    set_cell_format(CustomSerializeHeader_new(field_name), format)

new_with_format(field_name, format) ==
    set_header_format(CustomSerializeHeader_new(field_name), format)

(***************************************************************************)
(* Worksheet::serialize_headers_with_options.                              *)
(***************************************************************************)
\* Faulty variant: a skipped descriptor's hide_headers is not looked at.
hidden_headers_unskipped(custom_headers) ==
    \E i \in 1..Len(custom_headers) :
        ~custom_headers[i].skip /\ custom_headers[i].hide_headers

\* custom_headers.iter().any(|h| h.hide_headers)
hidden_headers(custom_headers) ==
    \E i \in 1..Len(custom_headers) : custom_headers[i].hide_headers

\* col_offset as u16: the enumerate() index narrowed to 16 bits.
as_u16(n) == n % ColNumLimit

\* col_initial + col_offset as u16 does not fit in a u16.
col_overflows(col_initial, col_offset) == col_initial + as_u16(col_offset) >= ColNumLimit

\* let col = col_initial + col_offset as u16, wrapped to 16 bits.
header_col(col_initial, col_offset) == (col_initial + as_u16(col_offset)) % ColNumLimit

\* Faulty variant: an entry the registry already holds is kept.
register_header_or_insert(ws, row, col_initial, struct_name, hidden, col_offset, custom_header) ==
    IF custom_header.skip THEN ws
    ELSE LET col == header_col(col_initial, col_offset)
             placed == [custom_header EXCEPT !.row = row, !.col = col]
             w == IF hidden THEN ws
                  ELSE write(ws, row, col, Str(placed.header_name), placed.header_format)
             logged == IF hidden THEN w
                       ELSE [w EXCEPT !.log = Append(@,
                               [row |-> row, col |-> col, t |-> "str",
                                v |-> placed.header_name,
                                format |-> placed.header_format,
                                key |-> <<struct_name, custom_header.field_name>>,
                                owner |-> <<struct_name, custom_header.field_name>>,
                                ok |-> w.err = "Ok"])]
             serializer_header == IF hidden THEN placed
                                  ELSE [placed EXCEPT !.row = @ + 1]
         IN IF logged.err # "Ok" THEN logged
            ELSE [logged EXCEPT !.headers =
                    @ @@ (<<struct_name, custom_header.field_name>> :> serializer_header)]

\* Faulty variant: the header cell holds the field name, renamed or not.
register_header_field_name(ws, row, col_initial, struct_name, hidden, col_offset, custom_header) ==
    IF custom_header.skip THEN ws
    ELSE LET col == header_col(col_initial, col_offset)
             placed == [custom_header EXCEPT !.row = row, !.col = col]
             w == IF hidden THEN ws
                  ELSE write(ws, row, col, Str(placed.field_name), placed.header_format)
             logged == IF hidden THEN w
                       ELSE [w EXCEPT !.log = Append(@,
                               [row |-> row, col |-> col, t |-> "str",
                                v |-> placed.field_name,
                                format |-> placed.header_format,
                                key |-> <<struct_name, custom_header.field_name>>,
                                owner |-> <<struct_name, custom_header.field_name>>,
                                ok |-> w.err = "Ok"])]
             serializer_header == IF hidden THEN placed
                                  ELSE [placed EXCEPT !.row = @ + 1]
         IN IF logged.err # "Ok" THEN logged
            ELSE [logged EXCEPT !.headers =
                    (<<struct_name, custom_header.field_name>> :> serializer_header) @@ @]

\* Faulty variant: a field that has an entry is placed one column to the
\* right of it.
register_header_next_col(ws, row, col_initial, struct_name, hidden, col_offset, custom_header) ==
    IF custom_header.skip THEN ws
    ELSE LET key == <<struct_name, custom_header.field_name>>
             col == IF key \in DOMAIN ws.headers THEN ws.headers[key].col + 1
                    ELSE header_col(col_initial, col_offset)
             placed == [custom_header EXCEPT !.row = row, !.col = col]
             w == IF hidden THEN ws
                  ELSE write(ws, row, col, Str(placed.header_name), placed.header_format)
             serializer_header == IF hidden THEN placed
                                  ELSE [placed EXCEPT !.row = @ + 1]
         IN IF w.err # "Ok" THEN w
            ELSE [w EXCEPT !.headers = (key :> serializer_header) @@ @]

\* Faulty variant: the cell of an entry is checked against the grid when
\* the headers are hidden too.
register_header_checked(ws, row, col_initial, struct_name, hidden, col_offset, custom_header) ==
    IF custom_header.skip THEN ws
    ELSE LET col == header_col(col_initial, col_offset)
             placed == [custom_header EXCEPT !.row = row, !.col = col]
             w == IF hidden
                  THEN IF check_dimensions_only(row, col) THEN ws
                       ELSE [ws EXCEPT !.err = "RowColumnLimitError"]
                  ELSE write(ws, row, col, Str(placed.header_name), placed.header_format)
             logged == IF hidden THEN w
                       ELSE [w EXCEPT !.log = Append(@,
                               [row |-> row, col |-> col, t |-> "str",
                                v |-> placed.header_name,
                                format |-> placed.header_format,
                                key |-> <<struct_name, custom_header.field_name>>,
                                owner |-> <<struct_name, custom_header.field_name>>,
                                ok |-> w.err = "Ok"])]
             serializer_header == IF hidden THEN placed
                                  ELSE [placed EXCEPT !.row = @ + 1]
         IN IF logged.err # "Ok" THEN logged
            ELSE [logged EXCEPT !.headers =
                    (<<struct_name, custom_header.field_name>> :> serializer_header) @@ @]

\* One iteration of the loop over custom_headers.enumerate().
register_header(ws, row, col_initial, struct_name, hidden, col_offset, custom_header) ==
    IF custom_header.skip THEN ws
    ELSE IF overflow_checks /\ col_overflows(col_initial, col_offset)
    THEN [ws EXCEPT !.err = "panic"]
    ELSE LET col == header_col(col_initial, col_offset)
             placed == [custom_header EXCEPT !.row = row, !.col = col]
             w == IF hidden THEN ws
                  ELSE write(ws, row, col, Str(placed.header_name), placed.header_format)
             logged == IF hidden THEN w
                       ELSE [w EXCEPT !.log = Append(@,
                               [row |-> row, col |-> col, t |-> "str",
                                v |-> placed.header_name,
                                format |-> placed.header_format,
                                key |-> <<struct_name, custom_header.field_name>>,
                                owner |-> <<struct_name, custom_header.field_name>>,
                                ok |-> w.err = "Ok"])]
             serializer_header == IF hidden THEN placed
                                  ELSE [placed EXCEPT !.row = @ + 1]
         IN IF logged.err # "Ok" THEN logged
            ELSE [logged EXCEPT !.headers =
                    (<<struct_name, custom_header.field_name>> :> serializer_header) @@ @]

\* Faulty variant: the loop goes on after a header write has failed and
\* returns the first error at its end.
RECURSIVE register_headers_to_the_end(_, _, _, _, _, _, _)
register_headers_to_the_end(ws, row, col_initial, struct_name, hidden, custom_headers, i) ==
    IF i > Len(custom_headers) THEN ws
    ELSE LET w == register_header([ws EXCEPT !.err = "Ok"], row, col_initial, struct_name,
                                  hidden, i - 1, custom_headers[i])
         IN register_headers_to_the_end(
                IF ws.err # "Ok" THEN [w EXCEPT !.err = ws.err] ELSE w,
                row, col_initial, struct_name, hidden, custom_headers, i + 1)

RECURSIVE register_headers(_, _, _, _, _, _, _)
register_headers(ws, row, col_initial, struct_name, hidden, custom_headers, i) ==
    IF i > Len(custom_headers) \/ ws.err # "Ok" THEN ws
    ELSE register_headers(
             register_header(ws, row, col_initial, struct_name, hidden, i - 1,
                             custom_headers[i]),
             row, col_initial, struct_name, hidden, custom_headers, i + 1)

\* Faulty variant: the registry is emptied before the headers are stored.
serialize_headers_with_options_clear(ws0, row, col, struct_name, custom_headers) ==
    LET ws == [ws0 EXCEPT !.err = "Ok", !.log = <<>>, !.headers = <<>>] IN
    IF ~check_dimensions_only(row, col)
    THEN [ws EXCEPT !.err = "RowColumnLimitError"]
    ELSE IF struct_name = ""
    THEN [ws EXCEPT !.err = "ParameterError"]
    ELSE register_headers(ws, row, col, struct_name, hidden_headers(custom_headers),
                          custom_headers, 1)

\* Faulty variant: a blank struct name is accepted.
serialize_headers_with_options_any_name(ws0, row, col, struct_name, custom_headers) ==
    LET ws == [ws0 EXCEPT !.err = "Ok", !.log = <<>>] IN
    IF ~check_dimensions_only(row, col)
    THEN [ws EXCEPT !.err = "RowColumnLimitError"]
    ELSE register_headers(ws, row, col, struct_name, hidden_headers(custom_headers),
                          custom_headers, 1)

\* Faulty variant: the first cell is not checked against the grid.
serialize_headers_with_options_unchecked(ws0, row, col, struct_name, custom_headers) ==
    LET ws == [ws0 EXCEPT !.err = "Ok", !.log = <<>>] IN
    IF struct_name = ""
    THEN [ws EXCEPT !.err = "ParameterError"]
    ELSE register_headers(ws, row, col, struct_name, hidden_headers(custom_headers),
                          custom_headers, 1)

\* Faulty variant: the struct name is tested before the first cell.
serialize_headers_with_options_name_first(ws0, row, col, struct_name, custom_headers) ==
    LET ws == [ws0 EXCEPT !.err = "Ok", !.log = <<>>] IN
    IF struct_name = ""
    THEN [ws EXCEPT !.err = "ParameterError"]
    ELSE IF ~check_dimensions_only(row, col)
    THEN [ws EXCEPT !.err = "RowColumnLimitError"]
    ELSE register_headers(ws, row, col, struct_name, hidden_headers(custom_headers),
                          custom_headers, 1)

serialize_headers_with_options(ws0, row, col, struct_name, custom_headers) ==
    LET ws == [ws0 EXCEPT !.err = "Ok", !.log = <<>>] IN
    IF ~check_dimensions_only(row, col)
    THEN [ws EXCEPT !.err = "RowColumnLimitError"]
    ELSE IF struct_name = ""
    THEN [ws EXCEPT !.err = "ParameterError"]
    ELSE register_headers(ws, row, col, struct_name, hidden_headers(custom_headers),
                          custom_headers, 1)

(***************************************************************************)
(* SerializerHeader: the serializer that captures the struct name and the  *)
(* field names of a sample value.                                          *)
(***************************************************************************)
SerializerHeader_new == [struct_name |-> "", field_names |-> <<>>]

RECURSIVE header_serialize(_, _)
RECURSIVE header_serialize_members(_, _, _)

header_serialize_str(h, data) == [h EXCEPT !.field_names = Append(@, data)]

\* Faulty variant: the value of a struct field is serialized after its key.
header_serialize_member_values(h, v, i) ==
    CASE v.t = "struct" -> header_serialize(header_serialize_str(h, v.k[i]), v.c[i])
      [] v.t = "tuple" -> header_serialize(h, v.c[i])
      [] OTHER -> h

header_serialize_member(h, v, i) ==
    CASE v.t = "struct" -> header_serialize_str(h, v.k[i])
      [] v.t = "tuple" -> header_serialize(h, v.c[i])
      [] OTHER -> h

header_serialize_members(h, v, i) ==
    IF i > Len(v.c) THEN h
    ELSE header_serialize_members(header_serialize_member(h, v, i), v, i + 1)

header_serialize(h, v) ==
    CASE v.t = "str" -> header_serialize_str(h, v.n)
      [] v.t = "struct" ->
           header_serialize_members([h EXCEPT !.struct_name = v.n], v, 1)
      [] v.t \in {"seq", "tuple", "tuple_struct", "map"} ->
           header_serialize_members(h, v, 1)
      [] v.t \in {"tuple_variant", "struct_variant"} ->
           header_serialize_members(header_serialize_str(h, v.n), v, 1)
      [] OTHER -> h

\* field_names.iter().map(|name| CustomSerializeHeader::new_with_format(name, format))
RECURSIVE custom_headers_of(_, _)
custom_headers_of(field_names, format) ==
    IF field_names = <<>> THEN <<>>
    ELSE <<new_with_format(Head(field_names), format)>>
         \o custom_headers_of(Tail(field_names), format)

serialize_headers_with_format(ws, row, col, data_structure, format) ==
    LET headers == header_serialize(SerializerHeader_new, data_structure) IN
    serialize_headers_with_options(ws, row, col, headers.struct_name,
                                   custom_headers_of(headers.field_names, format))

\* Faulty variant: the custom headers are made without a header format.
serialize_headers_plain(ws, row, col, data_structure) ==
    LET headers == header_serialize(SerializerHeader_new, data_structure) IN
    serialize_headers_with_options(
        ws, row, col, headers.struct_name,
        [i \in 1..Len(headers.field_names) |->
            CustomSerializeHeader_new(headers.field_names[i])])

serialize_headers(ws, row, col, data_structure) ==
    serialize_headers_with_format(ws, row, col, data_structure, DefaultFormat)

(***************************************************************************)
(* The inputs of the model.  Struct A declares the fields x, u, y and      *)
(* struct B the fields x, w; the custom header lists name x and y only, so *)
(* u and w are fields without a header.                                    *)
(***************************************************************************)
LongText == "toolong"

StructA(x, u, y) == Struct("A", <<"x", "u", "y">>, <<x, u, y>>)
StructB(x, w) == Struct("B", <<"x", "w">>, <<x, w>>)

RecA1 == StructA(Str("a"), Str("d"), Num("1"))
RecA2 == StructA(None, Bytes, Some(Str("b")))
RecA3 == StructA(Str(LongText), Unit, Str("c"))
RecA4 == StructA(Bytes, Char("u"), SeqOf(<<Str("p"), Str("q")>>))
RecA5 == StructA(TupleVariant("V", <<Str("t")>>), Map(<<Str("k"), Str("m")>>),
                 UnitVariant("W"))
RecA6 == StructA(Str("a"), StructB(Str("b"), Str("c")), Str("e"))
RecA7 == StructA(Map(<<Str("k"), Str("m")>>), NewtypeVariant("N", Str("n")),
                 NewtypeStruct(Char("z")))
RecA8 == StructA(Unit, StructVariant("V", <<"k">>, <<Str("i")>>), UnitStruct("U"))
RecA9 == StructA(Some(NewtypeStruct(Str("n"))), TupleStruct(<<Str("r"), Str("s")>>),
                 Tuple(<<Str("p"), Num("3")>>))
RecB1 == StructB(Str("b"), Str("c"))
RecB2 == StructB(Some(Num("2")), None)

Records == {RecA1, RecA2, RecA3, RecA4, RecA5, RecA6, RecA7, RecA8, RecA9, RecB1, RecB2}

Values ==
    Records \cup
    {SeqOf(<<RecA1, RecA2, RecA1>>), SeqOf(<<RecA1, RecA3, RecA2>>),
     SeqOf(<<RecB1, RecA1, RecB2>>), Str("s"), Map(<<Str("x"), Str("v")>>),
     SeqOf(<<None, Str("t")>>)}

Samples == {RecA1, RecB1, Str("A"), SeqOf(<<RecA1>>), Tuple(<<RecB1>>)}
SampleFormats == {"bold"}

HeaderX == CustomSerializeHeader_new("x")
HeaderY == CustomSerializeHeader_new("y")

ListXY == <<HeaderX, HeaderY>>
ListHidden == <<hide_headers(HeaderX, TRUE), HeaderY>>
ListSkipHidden == <<hide_headers(skip(HeaderX, TRUE), TRUE), HeaderY>>
ListLongName == <<HeaderX, rename(HeaderY, LongText), CustomSerializeHeader_new("u")>>
ListDuplicate == <<HeaderX, HeaderY, HeaderX>>
ListRenamed ==
    <<set_header_format(rename(HeaderX, "Item"), "bold"),
      set_cell_format(HeaderY, "currency")>>

HeaderLists ==
    {ListXY,
     ListHidden,
     <<skip(HeaderX, TRUE), HeaderY>>,
     ListRenamed,
     ListSkipHidden,
     <<HeaderY>>}

Positions == {<<0, 0>>, <<0, 5>>}
StructNames == {"A", "B"}

Args(row, col, name, hdrs) == [row |-> row, col |-> col, name |-> name, hdrs |-> hdrs]

OptionArgs ==
    {Args(pos[1], pos[2], "A", hdrs) : pos \in Positions, hdrs \in HeaderLists}
    \cup {Args(pos[1], pos[2], "B", ListXY) : pos \in Positions}
    \cup {Args(0, 0, "", ListXY), Args(RowMax, 0, "A", ListXY),
          Args(RowMax, 0, "", ListXY), Args(0, ColMax, "A", ListXY),
          Args(RowMax - 1, ColMax - 1, "A", ListXY),
          Args(RowMax - 1, ColMax - 1, "A", ListHidden),
          Args(RowMax, 0, "A", ListHidden), Args(0, 5, "", ListHidden),
          Args(0, 5, "A", ListLongName), Args(0, 0, "A", ListDuplicate)}

SamplePositions == {<<1, 2>>, <<0, ColMax>>}

\* The inputs of the long runs: two regions, records and one sequence.
RunArgs ==
    {Args(0, 0, "A", ListXY), Args(0, 0, "A", ListHidden), Args(0, 5, "B", ListXY)}
RunValues == {RecA1, RecA2, RecA3, RecB1, RecB2, SeqOf(<<RecA1, RecA2, RecA1>>)}

\* n skipped descriptors followed by the descriptors of tail.
RECURSIVE SkippedThen(_, _)
SkippedThen(n, tail) ==
    IF n = 0 THEN tail ELSE <<skip(HeaderX, TRUE)>> \o SkippedThen(n - 1, tail)

\* The inputs of the registrations of long lists, from the last column of
\* the grid: the descriptor that is not skipped has the last u16 column,
\* the first column past u16, or an index past u16.
WideArgs ==
    {Args(0, ColMax - 1, "A", SkippedThen(n, tail)) :
        n \in {1, ColNumLimit - ColMax, ColNumLimit - ColMax + 1, ColNumLimit},
        tail \in {<<HeaderY>>, <<hide_headers(HeaderY, TRUE)>>}}
    \cup {Args(0, 0, "A", SkippedThen(ColNumLimit, <<hide_headers(HeaderY, TRUE)>>))}
WideValues == {RecA1, RecA2}

(***************************************************************************)
(* The state: the worksheet ws; pre, the worksheet before the last call;   *)
(* last, the last call; reg, for each struct name the bookkeeping of its   *)
(* latest registration; steps, the number of calls made.                   *)
(***************************************************************************)
VARIABLES ws, pre, last, reg, steps
vars == <<ws, pre, last, reg, steps, overflow_checks>>

Call(op, row, col, name, hdrs, value) ==
    [op |-> op, row |-> row, col |-> col, name |-> name, hdrs |-> hdrs, value |-> value]

NoReg == [active |-> FALSE, r0 |-> 0, fields |-> {}, calls |-> 0, clean |-> FALSE]

\* The values the traversal passes through to one scalar write.
RECURSIVE IsPlain(_)
IsPlain(v) ==
    \/ v.t \in {"bool", "num", "str", "char", "none", "unit", "unit_struct"}
    \/ v.t \in {"some", "newtype_struct"} /\ IsPlain(v.c[1])

\* The data a plain value is written as.
RECURSIVE PlainData(_)
PlainData(v) ==
    CASE v.t \in {"bool", "num", "str"} -> [t |-> v.t, v |-> v.n]
      [] v.t = "char" -> [t |-> "str", v |-> v.n]
      [] v.t \in {"none", "unit", "unit_struct"} -> [t |-> "str", v |-> ""]
      [] v.t \in {"some", "newtype_struct"} -> PlainData(v.c[1])

RECURSIVE HasStruct(_)
HasStruct(v) == v.t = "struct" \/ \E i \in 1..Len(v.c) : HasStruct(v.c[i])

\* A record: a struct none of whose fields holds a struct.
IsRecord(v) == v.t = "struct" /\ \A i \in 1..Len(v.c) : ~HasStruct(v.c[i])

FieldIndex(v, f) == CHOOSE i \in 1..Len(v.k) : v.k[i] = f
HasField(v, f) == \E i \in 1..Len(v.k) : v.k[i] = f
FieldsOf(v) == {v.k[i] : i \in 1..Len(v.k)}

\* A record of struct S whose fields registered by S's latest registration
\* all hold plain values.
IsPlainRecordOf(v, S, fields) ==
    /\ IsRecord(v)
    /\ v.n = S
    /\ \A i \in 1..Len(v.k) : v.k[i] \in fields => IsPlain(v.c[i])

Registered(hdrs) == {hdrs[i].field_name : i \in {j \in 1..Len(hdrs) : ~hdrs[j].skip}}

RowsOf(w, S, fields) ==
    [f \in {g \in fields : <<S, g>> \in DOMAIN w.headers} |-> w.headers[<<S, f>>].row]

EntriesOf(w, S) == [key \in {q \in DOMAIN w.headers : q[1] = S} |-> w.headers[key]]

RegAfterRegistration(old, new, row, name, hdrs) ==
    [S \in StructNames |->
        IF S # name THEN reg[S]
        ELSE IF new.err = "Ok"
        THEN [active |-> TRUE,
              r0 |-> IF hidden_headers(hdrs) THEN row ELSE row + 1,
              fields |-> Registered(hdrs),
              calls |-> 0,
              clean |-> TRUE]
        ELSE IF EntriesOf(new, S) = EntriesOf(old, S) THEN reg[S]
        ELSE NoReg]

RegAfterSerialize(old, new, v) ==
    [S \in StructNames |->
        IF ~reg[S].active THEN reg[S]
        ELSE IF IsPlainRecordOf(v, S, reg[S].fields) /\ new.err = "Ok"
        THEN [reg[S] EXCEPT !.calls = @ + 1]
        ELSE IF RowsOf(new, S, reg[S].fields) = RowsOf(old, S, reg[S].fields)
        THEN reg[S]
        ELSE [reg[S] EXCEPT !.clean = FALSE]]

Init ==
    /\ ws = SerializerState_new
    /\ pre = SerializerState_new
    /\ last = Call("new", 0, 0, "", <<>>, Unit)
    /\ reg = [S \in StructNames |-> NoReg]
    /\ steps = 0
    /\ overflow_checks \in BOOLEAN

Registration(op, row, col, name, hdrs, value, new) ==
    /\ ws' = new
    /\ pre' = ws
    /\ last' = Call(op, row, col, name, hdrs, value)
    /\ reg' = RegAfterRegistration(ws, new, row, name, hdrs)
    /\ steps' = steps + 1
    /\ UNCHANGED overflow_checks

SerializeHeadersWithOptionsOf(args) ==
    \E a \in args :
        Registration("serialize_headers_with_options", a.row, a.col, a.name, a.hdrs, Unit,
                     serialize_headers_with_options(ws, a.row, a.col, a.name, a.hdrs))

SerializeOf(values) ==
    \E v \in values :
        LET new == Worksheet_serialize(ws, v) IN
        /\ ws' = new
        /\ pre' = ws
        /\ last' = Call("serialize", 0, 0, "", <<>>, v)
        /\ reg' = RegAfterSerialize(ws, new, v)
        /\ steps' = steps + 1
        /\ UNCHANGED overflow_checks

SerializeHeadersWithOptions ==
    steps < MaxSteps /\ SerializeHeadersWithOptionsOf(OptionArgs)

SerializeHeadersWithFormat ==
    /\ steps < MaxSteps
    /\ \E pos \in SamplePositions, sample \in Samples, format \in SampleFormats :
        LET h == header_serialize(SerializerHeader_new, sample) IN
        Registration("serialize_headers_with_format", pos[1], pos[2], h.struct_name,
                     custom_headers_of(h.field_names, format), sample,
                     serialize_headers_with_format(ws, pos[1], pos[2], sample, format))

SerializeHeaders ==
    /\ steps < MaxSteps
    /\ \E pos \in SamplePositions, sample \in Samples :
        LET h == header_serialize(SerializerHeader_new, sample) IN
        Registration("serialize_headers", pos[1], pos[2], h.struct_name,
                     custom_headers_of(h.field_names, DefaultFormat), sample,
                     serialize_headers(ws, pos[1], pos[2], sample))

Serialize == steps < MaxSteps /\ SerializeOf(Values)

Next ==
    \/ SerializeHeadersWithOptions
    \/ SerializeHeadersWithFormat
    \/ SerializeHeaders
    \/ Serialize

Spec == Init /\ [][Next]_vars

(***************************************************************************)
(* Long runs: registrations of two regions and serialize() calls on        *)
(* records of the two struct types, in any interleaving.                   *)
(***************************************************************************)
RunRegister == steps < MaxRunSteps /\ SerializeHeadersWithOptionsOf(RunArgs)

RunSerialize == steps < MaxRunSteps /\ SerializeOf(RunValues)

NextRun == RunRegister \/ RunSerialize

SpecRun == Init /\ [][NextRun]_vars

(***************************************************************************)
(* Registrations of descriptor lists long enough for the column of a       *)
(* descriptor not to fit in a u16, and serialize() calls after them.       *)
(***************************************************************************)
WideRegister == steps < MaxWideSteps /\ SerializeHeadersWithOptionsOf(WideArgs)

WideSerialize == steps < MaxWideSteps /\ SerializeOf(WideValues)

NextWide == WideRegister \/ WideSerialize

SpecWide == Init /\ [][NextWide]_vars

(***************************************************************************)
(* Runs long enough for a row not to fit in a u32: one field registered    *)
(* on the last row of the grid, records whose write fails beyond the grid  *)
(* and advances the entry's row, and sequences of records of a struct type *)
(* that is not registered, which advance the cursor's row only.            *)
(***************************************************************************)
DeepArgs == {Args(RowMax - 1, 0, "A", <<HeaderX>>)}
DeepValues == {RecA1, SeqOf(<<RecB1, RecB1>>)}

DeepRegister == steps < MaxDeepSteps /\ SerializeHeadersWithOptionsOf(DeepArgs)

DeepSerialize == steps < MaxDeepSteps /\ SerializeOf(DeepValues)

NextDeep == DeepRegister \/ DeepSerialize

SpecDeep == Init /\ [][NextDeep]_vars

(***************************************************************************)
(* Properties.                                                             *)
(***************************************************************************)
IsRegistration(call) ==
    call.op \in {"serialize_headers", "serialize_headers_with_format",
                 "serialize_headers_with_options"}

\* The fields a struct type declares.
Declared(S) == IF S = "A" THEN {"x", "u", "y"} ELSE {"x", "w"}

\* The positions in the log of the writes of the values declared by owner.
WritesOf(w, owner) == {i \in 1..Len(w.log) : w.log[i].owner = owner}

RowIs(w, S, f, row) == <<S, f>> \in DOMAIN w.headers /\ w.headers[<<S, f>>].row = row
ColIs(w, S, f, col) == <<S, f>> \in DOMAIN w.headers /\ w.headers[<<S, f>>].col = col
CellIs(w, row, col, v) == <<row, col>> \in DOMAIN w.cells /\ w.cells[<<row, col>>].v = v

\* C1: After a successful registration of struct type S with first data row
\* r0 and no later registration of S, the k-th of the serialize() calls made
\* on records of S whose registered fields hold scalar or optional-scalar
\* values (each of the k calls returning Ok) writes every registered field's
\* value exactly once, at row r0 + k - 1 in that field's registered column.
RowAdvance ==
    \A S \in StructNames :
        (/\ last.op = "serialize"
         /\ ws.err = "Ok"
         /\ reg[S].active
         /\ reg[S].clean
         /\ IsPlainRecordOf(last.value, S, reg[S].fields))
        => \A f \in reg[S].fields \cap FieldsOf(last.value) :
             LET hits == WritesOf(ws, <<S, f>>)
                 data == PlainData(last.value.c[FieldIndex(last.value, f)])
                 row == reg[S].r0 + reg[S].calls - 1
                 col == pre.headers[<<S, f>>].col
             IN /\ Cardinality(hits) = 1
                /\ \A i \in hits :
                     /\ ws.log[i].ok
                     /\ ws.log[i].row = row
                     /\ ws.log[i].col = col
                     /\ ws.log[i].t = data.t
                     /\ ws.log[i].v = data.v
                /\ <<row, col>> \in DOMAIN ws.cells
                /\ ws.cells[<<row, col>>].t = data.t
                /\ ws.cells[<<row, col>>].v = data.v

\* The third successful call on a record of A after its registration with
\* visible headers at row 0: x and y land on row 3.
RowAdvanceWitness ==
    /\ last.op = "serialize"
    /\ last.value = RecA2
    /\ ws.err = "Ok"
    /\ reg["A"].active
    /\ reg["A"].clean
    /\ reg["A"].fields = {"x", "y"}
    /\ reg["A"].r0 = 1
    /\ reg["A"].calls = 3
    /\ CellIs(ws, 3, 1, "b")

\* C2 as stated: whatever shapes the fields of a record hold, a completed
\* serialize() of the record advances the row of each of its registered
\* fields by exactly one.
RowCadenceAllShapes ==
    (last.op = "serialize" /\ ws.err = "Ok" /\ IsRecord(last.value))
    => \A f \in FieldsOf(last.value) :
         <<last.value.n, f>> \in DOMAIN pre.headers
         => ws.headers[<<last.value.n, f>>].row = pre.headers[<<last.value.n, f>>].row + 1

\* C2, amended: a completed serialize() of a record advances by exactly one
\* the row of each registered field whose value is a scalar, a char, a unit
\* value or an option or newtype wrapper of these, whatever the other fields
\* hold and however many of them have no header; so after any number of
\* records whose registered fields hold such values, all registered fields
\* of the type hold the same row.
RowCadence ==
    /\ (last.op = "serialize" /\ ws.err = "Ok" /\ IsRecord(last.value))
       => \A i \in 1..Len(last.value.k) :
            LET key == <<last.value.n, last.value.k[i]>> IN
            (key \in DOMAIN pre.headers /\ IsPlain(last.value.c[i]))
            => ws.headers[key].row = pre.headers[key].row + 1
    /\ \A S \in StructNames :
         (reg[S].active /\ reg[S].clean)
         => \A f \in reg[S].fields \cap Declared(S) :
              ws.headers[<<S, f>>].row = reg[S].r0 + reg[S].calls

\* A record with an absent option in a registered field and a field without
\* a header has been serialized twice: x and y both stand at row r0 + 2.
RowCadenceWitness ==
    /\ last.op = "serialize"
    /\ last.value = RecA2
    /\ ws.err = "Ok"
    /\ reg["A"].active
    /\ reg["A"].clean
    /\ reg["A"].calls = 2
    /\ <<"A", "u">> \notin DOMAIN ws.headers
    /\ RowIs(ws, "A", "x", reg["A"].r0 + 2)
    /\ RowIs(ws, "A", "y", reg["A"].r0 + 2)

\* n successive top-level serialize() calls, the caller stopping at the
\* first error.
RECURSIVE SuccessiveCalls(_, _, _)
SuccessiveCalls(w, elements, i) ==
    IF i > Len(elements) THEN w
    ELSE LET r == Worksheet_serialize(w, elements[i]) IN
         IF r.err # "Ok" THEN r ELSE SuccessiveCalls(r, elements, i + 1)

\* C3: serializing a sequence of struct values in one serialize() call
\* leaves the same cells, the same registry (row counters included) and the
\* same result as successive serialize() calls on its elements, and the
\* writes of one registered field land on consecutive rows of one column.
SequenceAsSuccessiveCalls ==
    (/\ last.op = "serialize"
     /\ last.value.t = "seq"
     /\ \A i \in 1..Len(last.value.c) : IsRecord(last.value.c[i]))
    => LET r == SuccessiveCalls([pre EXCEPT !.err = "Ok"], last.value.c, 1) IN
       /\ ws.cells = r.cells
       /\ ws.headers = r.headers
       /\ ws.err = r.err
       /\ \A i, j \in 1..Len(ws.log) :
            (/\ i < j
             /\ ws.log[i].key = ws.log[j].key
             /\ \A m \in (i + 1)..(j - 1) : ws.log[m].key # ws.log[i].key)
            => /\ ws.log[j].row = ws.log[i].row + 1
               /\ ws.log[j].col = ws.log[i].col

\* Three records of A in one sequence after the registration of A with
\* visible headers at (0, 0): rows 1, 2, 3 of columns 0 and 1.
SequenceWitness ==
    /\ last.op = "serialize"
    /\ last.value = SeqOf(<<RecA1, RecA2, RecA1>>)
    /\ ws.err = "Ok"
    /\ RowIs(pre, "A", "x", 1)
    /\ ColIs(pre, "A", "x", 0)
    /\ ColIs(pre, "A", "y", 1)
    /\ CellIs(ws, 1, 0, "a")
    /\ CellIs(ws, 2, 0, "")
    /\ CellIs(ws, 3, 0, "a")
    /\ CellIs(ws, 1, 1, "1")
    /\ CellIs(ws, 2, 1, "b")
    /\ CellIs(ws, 3, 1, "1")
    /\ RowIs(ws, "A", "x", 4)
    /\ RowIs(ws, "A", "y", 4)

ColumnsOf(w, S) == {w.headers[key].col : key \in {q \in DOMAIN w.headers : q[1] = S}}

\* C4: when the columns registered for A and for B are disjoint, a
\* serialize() call on a record of one of them writes only values of that
\* struct, only into its own columns, and leaves every entry of the other
\* struct unchanged.
IndependentRegions ==
    \A S, T \in StructNames :
        (/\ S # T
         /\ last.op = "serialize"
         /\ IsRecord(last.value)
         /\ last.value.n = S
         /\ ColumnsOf(pre, S) \cap ColumnsOf(pre, T) = {})
        => /\ \A i \in 1..Len(ws.log) :
                /\ ws.log[i].owner[1] = S
                /\ ws.log[i].col \in ColumnsOf(pre, S)
                /\ ws.log[i].col \notin ColumnsOf(pre, T)
           /\ EntriesOf(ws, T) = EntriesOf(pre, T)
           /\ \A cell \in DOMAIN ws.cells :
                cell[2] \in ColumnsOf(pre, T)
                => cell \in DOMAIN pre.cells /\ ws.cells[cell] = pre.cells[cell]

\* A at (0, 0) and B at (0, 5); records of A, of B and of A again have been
\* serialized: the second record of A lands on row 2 while B stands at row 2.
IndependentRegionsWitness ==
    /\ last.op = "serialize"
    /\ last.value = RecA1
    /\ ws.err = "Ok"
    /\ ColumnsOf(pre, "A") = {0, 1}
    /\ ColumnsOf(pre, "B") = {5, 6}
    /\ RowIs(pre, "B", "x", 2)
    /\ RowIs(ws, "B", "x", 2)
    /\ RowIs(pre, "A", "x", 2)
    /\ RowIs(ws, "A", "x", 3)
    /\ CellIs(ws, 2, 0, "a")
    /\ CellIs(ws, 1, 5, "b")

\* C5 as stated: every value written by the traversal of a struct is
\* resolved against the key (struct that declares the field, field), also
\* after a struct nested in a field has been visited.
ResolvedAgainstDeclaringStruct ==
    (last.op = "serialize" /\ last.value.t = "struct")
    => \A i \in 1..Len(ws.log) : ws.log[i].key = ws.log[i].owner

\* The values of the fields of a struct whose keys are in keep.
RECURSIVE KeepFields(_, _, _)
KeepFields(v, keep, i) ==
    IF i > Len(v.k) THEN Struct(v.n, <<>>, <<>>)
    ELSE LET rest == KeepFields(v, keep, i + 1) IN
         IF v.k[i] \in keep
         THEN Struct(v.n, <<v.k[i]>> \o rest.k, <<v.c[i]>> \o rest.c)
         ELSE rest

\* C6: serializing a record that has fields without a registry entry writes
\* nothing for those fields and leaves the cells, the registry and the
\* result exactly as the serialization of the record without those fields
\* does.
UnknownFieldDropped ==
    (last.op = "serialize" /\ IsRecord(last.value))
    => LET v == last.value
           known == {f \in FieldsOf(v) : <<v.n, f>> \in DOMAIN pre.headers}
           r == Worksheet_serialize(pre, KeepFields(v, known, 1))
       IN /\ \A f \in FieldsOf(v) \ known : WritesOf(ws, <<v.n, f>>) = {}
          /\ ws.cells = r.cells
          /\ ws.headers = r.headers
          /\ ws.err = r.err
          /\ ws.log = r.log

\* A record of A whose field u has no header and holds a text: x and y are
\* written, u is not.
UnknownFieldWitness ==
    /\ last.op = "serialize"
    /\ last.value = RecA1
    /\ ws.err = "Ok"
    /\ <<"A", "u">> \notin DOMAIN pre.headers
    /\ <<"A", "x">> \in DOMAIN pre.headers
    /\ <<"A", "y">> \in DOMAIN pre.headers
    /\ Len(ws.log) = 2
    /\ ws.log[1].v = "a"
    /\ ws.log[2].v = "1"

\* The number of descriptors before position i that are not skipped.
NotSkippedBefore(hdrs, i) == Cardinality({j \in 1..(i - 1) : ~hdrs[j].skip})

\* The last position that registers hdrs[i].field_name.
IsLastOf(hdrs, i) ==
    /\ ~hdrs[i].skip
    /\ \A j \in (i + 1)..Len(hdrs) :
         hdrs[j].skip \/ hdrs[j].field_name # hdrs[i].field_name

\* C7 as stated: the j-th descriptor that is not skipped (from 0) is
\* assigned column start_col + j.
SkipConsumesNoColumn ==
    (last.op = "serialize_headers_with_options" /\ ws.err = "Ok")
    => \A i \in 1..Len(last.hdrs) :
         IsLastOf(last.hdrs, i)
         => ws.headers[<<last.name, last.hdrs[i].field_name>>].col
              = last.col + NotSkippedBefore(last.hdrs, i)

\* C8 as stated: after a successful serialize_headers_with_options no field
\* whose descriptor is marked skip has a registry entry under that struct.
SkippedNotRegistered ==
    (last.op = "serialize_headers_with_options" /\ ws.err = "Ok")
    => \A i \in 1..Len(last.hdrs) :
         last.hdrs[i].skip
         => <<last.name, last.hdrs[i].field_name>> \notin DOMAIN ws.headers

\* The registry entry the registration call makes of hdrs[i].
Placed(call, i) ==
    [call.hdrs[i] EXCEPT
        !.row = IF hidden_headers(call.hdrs) THEN call.row ELSE call.row + 1,
        !.col = call.col + (i - 1)]

\* C9 as stated: after a successful registration of S the entries keyed by
\* S are exactly the descriptors of the latest list that are not skipped,
\* with the latest column, styles and first data row.
LastRegistrationOnly ==
    (IsRegistration(last) /\ ws.err = "Ok")
    => /\ {key[2] : key \in {q \in DOMAIN ws.headers : q[1] = last.name}}
            = Registered(last.hdrs)
       /\ \A i \in 1..Len(last.hdrs) :
            IsLastOf(last.hdrs, i)
            => ws.headers[<<last.name, last.hdrs[i].field_name>>] = Placed(last, i)

\* C9, amended: after a successful registration of S every field the latest
\* list names in a descriptor that is not skipped has the entry of that
\* descriptor (latest column, styles, names and first data row); the entries
\* S had for other fields are kept as they were, and no other key appears.
LastRegistrationWins ==
    (IsRegistration(last) /\ ws.err = "Ok")
    => /\ \A i \in 1..Len(last.hdrs) :
            IsLastOf(last.hdrs, i)
            => /\ <<last.name, last.hdrs[i].field_name>> \in DOMAIN ws.headers
               /\ ws.headers[<<last.name, last.hdrs[i].field_name>>] = Placed(last, i)
       /\ \A key \in DOMAIN pre.headers :
            (key[1] = last.name /\ key[2] \notin Registered(last.hdrs))
            => key \in DOMAIN ws.headers /\ ws.headers[key] = pre.headers[key]
       /\ \A key \in DOMAIN ws.headers :
            \/ key \in DOMAIN pre.headers
            \/ key[1] = last.name /\ key[2] \in Registered(last.hdrs)

\* A was registered with x and y and a record was serialized; A is then
\* registered again at (0, 5) with y alone: y has the new entry, x the old.
LastRegistrationWitness ==
    /\ last.op = "serialize_headers_with_options"
    /\ ws.err = "Ok"
    /\ last.name = "A"
    /\ last.hdrs = <<HeaderY>>
    /\ last.col = 5
    /\ RowIs(pre, "A", "y", 2)
    /\ ColIs(pre, "A", "y", 1)
    /\ RowIs(ws, "A", "y", 1)
    /\ ColIs(ws, "A", "y", 5)
    /\ RowIs(ws, "A", "x", 2)
    /\ ColIs(ws, "A", "x", 0)

\* C10: a registration call for struct name S, successful or failed, leaves
\* every registry entry of another struct name as it was and adds no entry
\* under another struct name.
RegistrationFrame ==
    IsRegistration(last)
    => /\ \A key \in DOMAIN pre.headers :
            key[1] # last.name
            => key \in DOMAIN ws.headers /\ ws.headers[key] = pre.headers[key]
       /\ \A key \in DOMAIN ws.headers :
            key[1] # last.name => key \in DOMAIN pre.headers

\* B has entries whose row has advanced; A is registered over B's region.
RegistrationFrameWitness ==
    /\ last.op = "serialize_headers_with_options"
    /\ ws.err = "Ok"
    /\ last.name = "A"
    /\ <<"B", "x">> \in DOMAIN pre.headers
    /\ RowIs(pre, "B", "x", 2)
    /\ ColIs(pre, "B", "x", last.col)
    /\ ws.headers[<<"B", "x">>] = pre.headers[<<"B", "x">>]
    /\ <<"A", "x">> \in DOMAIN ws.headers

\* Some descriptor of the list, skipped or not, asks for hidden headers.
AnyHidden(hdrs) == \E i \in 1..Len(hdrs) : hdrs[i].hide_headers

NotSkipped(hdrs) == {i \in 1..Len(hdrs) : ~hdrs[i].skip}

\* The positions in the log of the header writes of descriptor i of the call.
HeaderWrites(w, call, i) ==
    {j \in 1..Len(w.log) : w.log[j].key = <<call.name, call.hdrs[i].field_name>>}

\* C11: after a successful registration, if any descriptor of the list,
\* skipped or not, has hide_headers set then no cell was written and every
\* entry the call registered has row start_row; otherwise a header cell was
\* written at start_row for every descriptor that is not skipped and every
\* entry the call registered has row start_row + 1.
HeaderVisibility ==
    (IsRegistration(last) /\ ws.err = "Ok")
    => IF AnyHidden(last.hdrs)
       THEN /\ ws.log = <<>>
            /\ ws.cells = pre.cells
            /\ \A i \in NotSkipped(last.hdrs) :
                 RowIs(ws, last.name, last.hdrs[i].field_name, last.row)
       ELSE \A i \in NotSkipped(last.hdrs) :
              /\ \E j \in HeaderWrites(ws, last, i) :
                   ws.log[j].ok /\ ws.log[j].row = last.row
              /\ RowIs(ws, last.name, last.hdrs[i].field_name, last.row + 1)

\* A list whose only hide_headers is on a skipped descriptor is registered
\* over a worksheet without cells: y has row 0 and there is still no cell.
HeaderVisibilityWitness ==
    /\ last.op = "serialize_headers_with_options"
    /\ ws.err = "Ok"
    /\ last.hdrs = ListSkipHidden
    /\ last.row = 0
    /\ RowIs(ws, "A", "y", 0)
    /\ ws.cells = <<>>

\* C12: a registration with visible headers that succeeds makes exactly one
\* write for each descriptor that is not skipped, the j-th write for the
\* j-th of them, at (start_row, the column of the descriptor's entry, when
\* the entry is this descriptor's), of the descriptor's display name (the
\* rename() value, or the field name) with the descriptor's header format
\* or none; it makes no other write and changes no other cell.
HeaderCells ==
    (IsRegistration(last) /\ ws.err = "Ok" /\ ~AnyHidden(last.hdrs))
    => /\ Len(ws.log) = Cardinality(NotSkipped(last.hdrs))
       /\ \A i \in NotSkipped(last.hdrs) :
            LET key == <<last.name, last.hdrs[i].field_name>>
                hits == {Cardinality({q \in 1..(i - 1) : ~last.hdrs[q].skip}) + 1}
            IN /\ key \in DOMAIN ws.headers
               /\ \A j \in hits :
                    /\ ws.log[j].ok
                    /\ ws.log[j].key = key
                    /\ ws.log[j].row = last.row
                    /\ (\A q \in (i + 1)..Len(last.hdrs) :
                          last.hdrs[q].skip
                          \/ last.hdrs[q].field_name # last.hdrs[i].field_name)
                         => ws.log[j].col = ws.headers[key].col
                    /\ ws.log[j].t = "str"
                    /\ ws.log[j].v = last.hdrs[i].header_name
                    /\ ws.log[j].format = last.hdrs[i].header_format
                    /\ <<last.row, ws.log[j].col>> \in DOMAIN ws.cells
                    /\ ws.cells[<<last.row, ws.log[j].col>>] =
                         [t |-> "str", v |-> last.hdrs[i].header_name,
                          format |-> last.hdrs[i].header_format]
       /\ \A pos \in DOMAIN pre.cells : pos \in DOMAIN ws.cells
       /\ \A pos \in DOMAIN ws.cells :
            \/ pos \in DOMAIN pre.cells /\ ws.cells[pos] = pre.cells[pos]
            \/ \E j \in 1..Len(ws.log) : pos = <<ws.log[j].row, ws.log[j].col>>

\* A renamed, formatted x and a plain y are registered at (0, 5) over a
\* worksheet that has data: "Item" in bold at (0, 5), "y" unstyled at (0, 6).
HeaderCellsWitness ==
    /\ last.op = "serialize_headers_with_options"
    /\ ws.err = "Ok"
    /\ last.hdrs = ListRenamed
    /\ last.col = 5
    /\ pre.cells # <<>>
    /\ <<0, 5>> \in DOMAIN ws.cells
    /\ ws.cells[<<0, 5>>] = [t |-> "str", v |-> "Item", format |-> "bold"]
    /\ <<0, 6>> \in DOMAIN ws.cells
    /\ ws.cells[<<0, 6>>] = [t |-> "str", v |-> "y", format |-> NoFormat]

\* C13: serialize_headers_with_options with an empty struct_name and a first
\* cell inside the grid returns ParameterError and leaves the registry and
\* the cells as they were.
EmptyStructNameRejected ==
    (/\ last.op = "serialize_headers_with_options"
     /\ last.name = ""
     /\ last.row < RowMax
     /\ last.col < ColMax)
    => /\ ws.err = "ParameterError"
       /\ ws.headers = pre.headers
       /\ ws.cells = pre.cells

\* A registry with entries and a hidden-headers list under the empty name.
EmptyStructNameWitness ==
    /\ last.op = "serialize_headers_with_options"
    /\ last.name = ""
    /\ last.hdrs = ListHidden
    /\ last.col = 5
    /\ ws.err = "ParameterError"
    /\ pre.headers # <<>>

\* C14: a registration call whose (start_row, start_col) is outside the grid
\* returns RowColumnLimitError, writes no cell and inserts no entry.
OutOfBoundsRejected ==
    (IsRegistration(last) /\ ~(last.row < RowMax /\ last.col < ColMax))
    => /\ ws.err = "RowColumnLimitError"
       /\ ws.log = <<>>
       /\ ws.headers = pre.headers
       /\ ws.cells = pre.cells

\* serialize_headers of a record at a column past the grid, over a registry
\* that has entries.
OutOfBoundsWitness ==
    /\ last.op = "serialize_headers"
    /\ last.value = RecA1
    /\ last.col = ColMax
    /\ ws.err = "RowColumnLimitError"
    /\ pre.headers # <<>>

\* The values written as an empty string.
IsAbsent(v) == v.t \in {"none", "unit", "unit_struct"}

\* C15: a completed serialize() of a record makes, for each registered field
\* that holds None, a unit or a unit struct, exactly one write, of an empty
\* string, at the field's current cell with its cell format, and advances
\* the field's row by one; a registered sibling that held the same row
\* before the call and holds a scalar or an absent value holds the same row
\* after it.
AbsentKeepsAlignment ==
    (last.op = "serialize" /\ ws.err = "Ok" /\ IsRecord(last.value))
    => \A i \in 1..Len(last.value.k) :
         LET key == <<last.value.n, last.value.k[i]>> IN
         (IsAbsent(last.value.c[i]) /\ key \in DOMAIN pre.headers)
         => /\ Cardinality(WritesOf(ws, key)) = 1
            /\ \A j \in WritesOf(ws, key) :
                 /\ ws.log[j].ok
                 /\ ws.log[j].row = pre.headers[key].row
                 /\ ws.log[j].col = pre.headers[key].col
                 /\ ws.log[j].t = "str"
                 /\ ws.log[j].v = ""
                 /\ ws.log[j].format = pre.headers[key].cell_format
            /\ ws.headers[key].row = pre.headers[key].row + 1
            /\ \A g \in 1..Len(last.value.k) :
                 LET sibling == <<last.value.n, last.value.k[g]>> IN
                 (/\ sibling \in DOMAIN pre.headers
                  /\ IsPlain(last.value.c[g])
                  /\ pre.headers[sibling].row = pre.headers[key].row)
                 => ws.headers[sibling].row = ws.headers[key].row

\* A registered with x and y at row 0: a record whose x is absent, then the
\* record whose x is a unit and whose y is a unit struct; both rows are 3.
AbsentKeepsAlignmentWitness ==
    /\ last.op = "serialize"
    /\ last.value = RecA8
    /\ ws.err = "Ok"
    /\ RowIs(pre, "A", "x", 2)
    /\ RowIs(pre, "A", "y", 2)
    /\ CellIs(pre, 1, 1, "b")
    /\ Len(ws.log) = 2
    /\ ws.log[1].v = ""
    /\ ws.log[2].v = ""
    /\ RowIs(ws, "A", "x", 3)
    /\ RowIs(ws, "A", "y", 3)

\* C16 as stated: when the grid rejects the write of a registered field's
\* value, the field's row after the failed serialize() is the row it had
\* before the write was attempted (the row of the rejected write).
RowUnchangedOnFailedWrite ==
    last.op = "serialize"
    => \A j \in 1..Len(ws.log) :
         ~ws.log[j].ok => RowIs(ws, ws.log[j].key[1], ws.log[j].key[2], ws.log[j].row)

\* The error the grid returns for a rejected write request.
SinkError(e) ==
    IF ~(e.row < RowMax /\ e.col < ColMax) THEN "RowColumnLimitError"
    ELSE "MaxStringLengthExceeded"

\* The last successful write of the call at the cell of its j-th write.
IsLastWriteAt(w, j) ==
    \A q \in (j + 1)..Len(w.log) :
        ~(w.log[q].ok /\ w.log[q].row = w.log[j].row /\ w.log[q].col = w.log[j].col)

\* C17: a write the grid rejects is the last write request of the
\* serialize() call, the call returns the grid's error for that request, and
\* it returns an error only in that case; the cells written before it hold
\* what the call wrote and every other cell is as it was before the call.
AbortOnSinkError ==
    last.op = "serialize"
    => /\ \A j \in 1..Len(ws.log) :
            ~ws.log[j].ok => j = Len(ws.log) /\ ws.err = SinkError(ws.log[j])
       /\ ws.err # "Ok" => Len(ws.log) > 0 /\ ~ws.log[Len(ws.log)].ok
       /\ \A j \in 1..Len(ws.log) :
            (ws.log[j].ok /\ IsLastWriteAt(ws, j))
            => /\ <<ws.log[j].row, ws.log[j].col>> \in DOMAIN ws.cells
               /\ ws.cells[<<ws.log[j].row, ws.log[j].col>>] =
                    [t |-> ws.log[j].t, v |-> ws.log[j].v, format |-> ws.log[j].format]
       /\ \A pos \in DOMAIN pre.cells : pos \in DOMAIN ws.cells
       /\ \A pos \in DOMAIN ws.cells :
            \/ pos \in DOMAIN pre.cells /\ ws.cells[pos] = pre.cells[pos]
            \/ \E j \in 1..Len(ws.log) :
                 ws.log[j].ok /\ pos = <<ws.log[j].row, ws.log[j].col>>

\* A sequence of three records whose second has a text the grid rejects:
\* the first record is in the cells, the rejected write is the third and
\* last request and nothing of the third record was requested.
AbortOnSinkErrorWitness ==
    /\ last.op = "serialize"
    /\ last.value = SeqOf(<<RecA1, RecA3, RecA2>>)
    /\ ws.err = "MaxStringLengthExceeded"
    /\ Len(ws.log) = 3
    /\ ws.log[3].v = LongText
    /\ CellIs(ws, 1, 0, "a")
    /\ CellIs(ws, 1, 1, "1")
    /\ <<2, 1>> \notin DOMAIN ws.cells

\* C18 as stated: a serialize() call of a value that holds no struct (a bare
\* scalar, a sequence of scalars, an absent option, a map of scalars) makes
\* no write request and changes no entry and no cell, whatever the calls
\* before it.
CursorReset ==
    (last.op = "serialize" /\ ~HasStruct(last.value))
    => /\ ws.log = <<>>
       /\ ws.headers = pre.headers
       /\ ws.cells = pre.cells

\* The fields of a struct value whose value has one of the given shapes.
FieldsHolding(v, shapes) == {i \in 1..Len(v.k) : v.c[i].t \in shapes}

\* The serialize() call wrote nothing for field i of the struct it was given
\* and left the row of the field's entry as it was.
FieldDropped(i) ==
    LET key == <<last.value.n, last.value.k[i]>> IN
    /\ WritesOf(ws, key) = {}
    /\ key \in DOMAIN pre.headers => ws.headers[key].row = pre.headers[key].row

\* C19 as stated: a serialize() call of a map makes no write request and
\* changes no entry, a serialize() call of a struct writes nothing for a
\* field that holds a map and leaves the field's row as it was, and neither
\* returns an error because of the map.
MapsIgnored ==
    last.op = "serialize"
    => /\ last.value.t = "map"
            => ws.log = <<>> /\ ws.headers = pre.headers /\ ws.err = "Ok"
       /\ last.value.t = "struct"
            => \A i \in FieldsHolding(last.value, {"map"}) : FieldDropped(i)

\* C20 as stated: a serialize() call of a struct writes nothing for a field
\* whose value is a unit variant, a newtype variant or a struct variant, not
\* the variant's name, its keys or its values, and leaves the field's row
\* as it was.
EnumsDropped ==
    (last.op = "serialize" /\ last.value.t = "struct")
    => \A i \in FieldsHolding(last.value,
                              {"unit_variant", "newtype_variant", "struct_variant"}) :
         FieldDropped(i)

\* The registrations that take a sample value.
IsDiscovery(call) == call.op \in {"serialize_headers", "serialize_headers_with_format"}

\* C21: a successful serialize_headers or serialize_headers_with_format on a
\* struct sample with fields f0, ..., fn-1 registers under the sample's type
\* name field fi at column col + i with first data row row + 1 and no other
\* key, makes n write requests, of the field names on the header row, and
\* leaves every other entry (its row included) and every other cell as it
\* was: no value of the sample reaches a cell.
DiscoveryRegistersFields ==
    (IsDiscovery(last) /\ last.value.t = "struct" /\ ws.err = "Ok")
    => LET v == last.value IN
       /\ \A i \in 1..Len(v.k) :
            /\ ColIs(ws, v.n, v.k[i], last.col + i - 1)
            /\ RowIs(ws, v.n, v.k[i], last.row + 1)
       /\ \A key \in DOMAIN ws.headers :
            \/ key \in DOMAIN pre.headers
            \/ key[1] = v.n /\ key[2] \in FieldsOf(v)
       /\ \A key \in DOMAIN pre.headers :
            (key[1] # v.n \/ key[2] \notin FieldsOf(v))
            => key \in DOMAIN ws.headers /\ ws.headers[key] = pre.headers[key]
       /\ Len(ws.log) = Len(v.k)
       /\ \A j \in 1..Len(ws.log) :
            /\ ws.log[j].row = last.row
            /\ ws.log[j].col = last.col + j - 1
            /\ ws.log[j].v = v.k[j]
       /\ \A pos \in DOMAIN pre.cells : pos \in DOMAIN ws.cells
       /\ \A pos \in DOMAIN ws.cells :
            \/ pos \in DOMAIN pre.cells /\ ws.cells[pos] = pre.cells[pos]
            \/ /\ pos[1] = last.row
               /\ pos[2] \in last.col..(last.col + Len(v.k) - 1)
               /\ ws.cells[pos].v = v.k[pos[2] - last.col + 1]

\* serialize_headers at (1, 2) with a record of A as the sample, on a
\* worksheet that has cells: x, u, y are at columns 2, 3, 4, the header row
\* is row 1 and the sample's "d" is not under the header of u.
DiscoveryWitness ==
    /\ last.op = "serialize_headers"
    /\ last.value = RecA1
    /\ ws.err = "Ok"
    /\ pre.cells # <<>>
    /\ ColIs(ws, "A", "x", 2)
    /\ ColIs(ws, "A", "u", 3)
    /\ ColIs(ws, "A", "y", 4)
    /\ RowIs(ws, "A", "u", 2)
    /\ CellIs(ws, 1, 3, "u")
    /\ <<2, 3>> \notin DOMAIN ws.cells

\* C22 as stated: serialize_headers and serialize_headers_with_format with a
\* sample that is not a struct return an error, insert no entry and write
\* no cell.
NonStructSampleRejected ==
    (IsDiscovery(last) /\ last.value.t # "struct")
    => /\ ws.err # "Ok"
       /\ ws.headers = pre.headers
       /\ ws.cells = pre.cells

\* The custom headers CustomSerializeHeader::new(f), with the header format
\* set when one is given, for the fields f of a struct value in order.
DescriptorsOf(v, format) ==
    [i \in 1..Len(v.k) |->
        IF format = NoFormat THEN CustomSerializeHeader_new(v.k[i])
        ELSE set_header_format(CustomSerializeHeader_new(v.k[i]), format)]

\* The call left the result, the registry and the cells that
\* serialize_headers_with_options leaves with the sample's type name and
\* the given custom headers.
SameAsOptions(hdrs) ==
    LET r == serialize_headers_with_options(pre, last.row, last.col, last.value.n, hdrs)
    IN ws.err = r.err /\ ws.headers = r.headers /\ ws.cells = r.cells

\* The entries of the sample's fields are visible, unrenamed, unskipped,
\* without cell format and with the given header format.
DefaultEntries(format) ==
    \A i \in 1..Len(last.value.k) :
        LET key == <<last.value.n, last.value.k[i]>> IN
        /\ key \in DOMAIN ws.headers
        /\ ws.headers[key].header_name = last.value.k[i]
        /\ ws.headers[key].header_format = format
        /\ ws.headers[key].cell_format = NoFormat
        /\ ~ws.headers[key].skip
        /\ ~ws.headers[key].hide_headers

\* C23 as stated: serialize_headers on a struct sample leaves the registry
\* and the cells of serialize_headers_with_options with
\* CustomSerializeHeader::new(f) for each field, and its entries have no
\* header format.
HeadersAsPlainDescriptors ==
    (last.op = "serialize_headers" /\ last.value.t = "struct")
    => /\ SameAsOptions(DescriptorsOf(last.value, NoFormat))
       /\ ws.err = "Ok" => DefaultEntries(NoFormat)

\* C23, amended: serialize_headers on a struct sample leaves the registry
\* and the cells of serialize_headers_with_options with
\* CustomSerializeHeader::new(f).set_header_format(&Format::default()) for
\* each field: the entries are visible, unrenamed, unskipped and without
\* cell format, and their header format is the default format.
HeadersAsDefaultFormat ==
    (last.op = "serialize_headers" /\ last.value.t = "struct")
    => /\ SameAsOptions(DescriptorsOf(last.value, DefaultFormat))
       /\ ws.err = "Ok" => DefaultEntries(DefaultFormat)

\* serialize_headers at (1, 2) with a record of B as the sample: the header
\* of x is written with the default format.
HeadersAsDefaultFormatWitness ==
    /\ last.op = "serialize_headers"
    /\ last.value = RecB1
    /\ ws.err = "Ok"
    /\ <<1, 2>> \in DOMAIN ws.cells
    /\ ws.cells[<<1, 2>>] = [t |-> "str", v |-> "x", format |-> DefaultFormat]
    /\ RowIs(ws, "B", "w", 2)

\* C24: serialize_headers_with_format on a struct sample leaves the
\* registry and the cells of serialize_headers_with_options with
\* CustomSerializeHeader::new(f).set_header_format(format) for each field:
\* every field has the given header format and no cell format.
FormatAsDescriptors ==
    (last.op = "serialize_headers_with_format" /\ last.value.t = "struct")
    => \E format \in SampleFormats :
         /\ SameAsOptions(DescriptorsOf(last.value, format))
         /\ ws.err = "Ok" => DefaultEntries(format)

\* serialize_headers_with_format at (1, 2) with a record of A as the sample
\* and the bold format: three bold headers and no cell format.
FormatAsDescriptorsWitness ==
    /\ last.op = "serialize_headers_with_format"
    /\ last.value = RecA1
    /\ ws.err = "Ok"
    /\ <<1, 4>> \in DOMAIN ws.cells
    /\ ws.cells[<<1, 4>>] = [t |-> "str", v |-> "y", format |-> "bold"]
    /\ ws.headers[<<"A", "u">>].cell_format = NoFormat

\* C26: the column a successful registration assigns to a field is the
\* column the same call assigns on a new worksheet, so registering the same
\* struct type again at the same place with the same list assigns the same
\* columns, whatever was registered and serialized in between.
ColumnStability ==
    (IsRegistration(last) /\ ws.err = "Ok")
    => LET first == serialize_headers_with_options(SerializerState_new, last.row,
                                                   last.col, last.name, last.hdrs)
       IN \A i \in NotSkipped(last.hdrs) :
            LET key == <<last.name, last.hdrs[i].field_name>> IN
            /\ key \in DOMAIN ws.headers
            /\ key \in DOMAIN first.headers
            /\ ws.headers[key].col = first.headers[key].col

\* A was registered at (0, 0) with x and y, three records were serialized
\* and A is registered again with the same call: x and y keep columns 0, 1.
ColumnStabilityWitness ==
    /\ last = Call("serialize_headers_with_options", 0, 0, "A", ListXY, Unit)
    /\ ws.err = "Ok"
    /\ RowIs(pre, "A", "x", 4)
    /\ ColIs(pre, "A", "x", 0)
    /\ ColIs(pre, "A", "y", 1)
    /\ RowIs(ws, "A", "x", 1)
    /\ ColIs(ws, "A", "x", 0)
    /\ ColIs(ws, "A", "y", 1)

\* C27: a serialize() call, successful or failed, leaves the keys of the
\* registry and, for every entry, everything but the row as they were, and
\* changes the row only of entries it resolved.
LayoutFrame ==
    last.op = "serialize"
    => /\ DOMAIN ws.headers = DOMAIN pre.headers
       /\ \A key \in DOMAIN pre.headers :
            /\ [ws.headers[key] EXCEPT !.row = pre.headers[key].row] = pre.headers[key]
            /\ ws.headers[key].row # pre.headers[key].row
                 => \E j \in 1..Len(ws.log) : ws.log[j].key = key

\* A failed serialize() on a layout with a renamed, formatted x and a y
\* with a cell format: the row of x changed, the rest of the entries not.
LayoutFrameWitness ==
    /\ last.op = "serialize"
    /\ last.value = RecA3
    /\ ws.err = "MaxStringLengthExceeded"
    /\ <<"A", "x">> \in DOMAIN pre.headers
    /\ pre.headers[<<"A", "x">>].header_name = "Item"
    /\ ws.headers[<<"A", "x">>].header_name = "Item"
    /\ ws.headers[<<"A", "y">>].cell_format = "currency"
    /\ RowIs(pre, "A", "x", 1)
    /\ RowIs(ws, "A", "x", 2)

\* The number of lookups of the call that resolved key.
Resolved(w, key) == Cardinality({j \in 1..Len(w.log) : w.log[j].key = key})

\* C28 as stated: no call removes a key from the registry; a serialize()
\* call moves the row of an entry up by one for each lookup that resolved it
\* and never down, and a registration leaves the rows of other struct names
\* alone.
NeverRemoved ==
    /\ \A key \in DOMAIN pre.headers : key \in DOMAIN ws.headers
    /\ last.op = "serialize"
         => \A key \in DOMAIN pre.headers :
              ws.headers[key].row = pre.headers[key].row + Resolved(ws, key)
    /\ IsRegistration(last)
         => \A key \in DOMAIN pre.headers :
              key[1] # last.name => ws.headers[key].row = pre.headers[key].row

\* C29 as stated: a serialize_headers_with_options call with a first cell
\* inside the grid never panics, and returns an error when the column of a
\* descriptor that is not skipped, start_col + its index, does not fit in
\* 16 bits.
NoColumnOverflow ==
    (/\ last.op = "serialize_headers_with_options"
     /\ last.row < RowMax
     /\ last.col < ColMax)
    => /\ ws.err # "panic"
       /\ (\E i \in NotSkipped(last.hdrs) : last.col + (i - 1) >= ColNumLimit)
            => ws.err # "Ok"

\* A record, or a sequence of records.
IsRecords(v) ==
    \/ IsRecord(v)
    \/ v.t = "seq" /\ \A i \in 1..Len(v.c) : IsRecord(v.c[i])

\* C30: every write request a serialize() call of a record or of a sequence
\* of records makes for a field (S, f) is made at the row the (S, f) entry
\* had just before the write, in the entry's column and with the entry's
\* cell format (none when the entry has none), and a cell it wrote last
\* holds that format.
WrittenAtEntry ==
    (last.op = "serialize" /\ IsRecords(last.value))
    => \A j \in 1..Len(ws.log) :
         LET key == ws.log[j].owner
             earlier == Cardinality({q \in 1..(j - 1) : ws.log[q].key = key})
         IN /\ key \in DOMAIN pre.headers
            /\ ws.log[j].key = key
            /\ ws.log[j].row = pre.headers[key].row + earlier
            /\ ws.log[j].col = pre.headers[key].col
            /\ ws.log[j].format = pre.headers[key].cell_format
            /\ (ws.log[j].ok /\ IsLastWriteAt(ws, j))
                 => ws.cells[<<ws.log[j].row, ws.log[j].col>>].format
                      = pre.headers[key].cell_format

\* A sequence of records on a layout where y has a cell format and x has
\* none: y of the first record is written with the format, x of the second
\* record without.
WrittenAtEntryWitness ==
    /\ last.op = "serialize"
    /\ last.value = SeqOf(<<RecA1, RecA2, RecA1>>)
    /\ ws.err = "Ok"
    /\ Len(ws.log) = 6
    /\ ws.log[2].format = "currency"
    /\ ws.log[3].format = NoFormat
    /\ ws.log[3].row = 2
    /\ ws.log[4].format = "currency"

\* The value inside the Some and newtype struct wrappers of a value.
RECURSIVE Unwrapped(_)
Unwrapped(v) == IF v.t \in {"some", "newtype_struct"} THEN Unwrapped(v.c[1]) ELSE v

\* The struct value with the wrappers of its fields' values taken off.
WithBareFields(v) == [v EXCEPT !.c = [i \in 1..Len(v.c) |-> Unwrapped(v.c[i])]]

\* C31: a serialize() call of a struct whose fields hold values inside Some
\* or newtype struct wrappers, to any depth, leaves the result, the cells
\* and the registry that the call leaves with the bare values in the fields.
TransparentWrappers ==
    (last.op = "serialize" /\ last.value.t = "struct")
    => LET bare == Worksheet_serialize(pre, WithBareFields(last.value)) IN
       /\ ws.err = bare.err
       /\ ws.cells = bare.cells
       /\ ws.headers = bare.headers

\* The record whose x is Some(Newtype("n")) is serialized on a layout with
\* x and y: "n" is in the column of x and the row of x moved by one.
TransparentWrappersWitness ==
    /\ last.op = "serialize"
    /\ last.value = RecA9
    /\ ws.err = "Ok"
    /\ RowIs(pre, "A", "x", 1)
    /\ ColIs(pre, "A", "x", 0)
    /\ RowIs(ws, "A", "x", 2)
    /\ CellIs(ws, 1, 0, "n")

\* A tuple, a tuple struct or a sequence whose members are scalars.
IsScalarList(v) ==
    /\ v.t \in {"tuple", "tuple_struct", "seq"}
    /\ \A m \in 1..Len(v.c) : IsPlain(v.c[m])

\* C32: a completed serialize() of a record makes, for a registered field
\* that holds a tuple, a tuple struct or a sequence of n scalars, n write
\* requests, the m-th of the m-th member at the entry's row + m - 1 in the
\* entry's column, and leaves the entry's row advanced by n.
ScalarListByMember ==
    (last.op = "serialize" /\ ws.err = "Ok" /\ IsRecord(last.value))
    => \A i \in 1..Len(last.value.k) :
         LET key == <<last.value.n, last.value.k[i]>>
             list == last.value.c[i]
         IN (IsScalarList(list) /\ key \in DOMAIN pre.headers)
            => /\ Cardinality(WritesOf(ws, key)) = Len(list.c)
               /\ \A m \in 1..Len(list.c) :
                    \E j \in WritesOf(ws, key) :
                       /\ Cardinality({q \in WritesOf(ws, key) : q < j}) = m - 1
                       /\ ws.log[j].ok
                       /\ ws.log[j].row = pre.headers[key].row + m - 1
                       /\ ws.log[j].col = pre.headers[key].col
                       /\ ws.log[j].t = PlainData(list.c[m]).t
                       /\ ws.log[j].v = PlainData(list.c[m]).v
                       /\ CellIs(ws, ws.log[j].row, ws.log[j].col, ws.log[j].v)
               /\ ws.headers[key].row = pre.headers[key].row + Len(list.c)

\* serialize_headers registered x, u, y of A at (1, 2); the record whose u
\* is a tuple struct of two and whose y is a tuple of two is serialized:
\* rows 2 and 3 of columns 3 and 4 are written and both rows are 4.
ScalarListWitness ==
    /\ last.op = "serialize"
    /\ last.value = RecA9
    /\ ws.err = "Ok"
    /\ ColIs(pre, "A", "u", 3)
    /\ RowIs(pre, "A", "u", 2)
    /\ CellIs(ws, 2, 3, "r")
    /\ CellIs(ws, 3, 3, "s")
    /\ CellIs(ws, 2, 4, "p")
    /\ CellIs(ws, 3, 4, "3")
    /\ RowIs(ws, "A", "u", 4)
    /\ RowIs(ws, "A", "y", 4)
    /\ RowIs(ws, "A", "x", 3)

\* The descriptor of the list whose header write is the q-th of the call.
WriterOf(hdrs, q) == CHOOSE i \in NotSkipped(hdrs) : NotSkippedBefore(hdrs, i) = q - 1

\* C33: when a header write of a registration fails, the call returns the
\* sink's error of that write; the writes before it succeeded and belong to
\* the descriptors that are not skipped, in list order; those descriptors
\* have their header cell and their entry; the descriptor of the failed
\* write and the later ones have no header cell written and their entries
\* are as before the call, unless an earlier descriptor names the field.
RegistrationAbort ==
    (IsRegistration(last) /\ ws.err # "Ok" /\ Len(ws.log) > 0)
    => LET n == Len(ws.log) IN
       /\ n <= Cardinality(NotSkipped(last.hdrs))
       /\ ~ws.log[n].ok
       /\ ws.err = SinkError(ws.log[n])
       /\ \A q \in 1..n :
            LET i == WriterOf(last.hdrs, q) IN
            /\ ws.log[q].key = <<last.name, last.hdrs[i].field_name>>
            /\ ws.log[q].row = last.row
            /\ ws.log[q].col = last.col + i - 1
            /\ ws.log[q].v = last.hdrs[i].header_name
       /\ \A q \in 1..(n - 1) :
            LET key == ws.log[q].key IN
            /\ ws.log[q].ok
            /\ CellIs(ws, last.row, ws.log[q].col, ws.log[q].v)
            /\ key \in DOMAIN ws.headers
            /\ ws.headers[key].row = last.row + 1
            /\ (\A p \in (q + 1)..(n - 1) : ws.log[p].key # key)
                 => ws.headers[key].col = ws.log[q].col
       /\ \A i \in NotSkipped(last.hdrs) :
            LET key == <<last.name, last.hdrs[i].field_name>>
                cell == <<last.row, last.col + i - 1>>
            IN NotSkippedBefore(last.hdrs, i) >= n - 1
               => /\ cell \in DOMAIN ws.cells <=> cell \in DOMAIN pre.cells
                  /\ cell \in DOMAIN ws.cells => ws.cells[cell] = pre.cells[cell]
                  /\ (\A q \in 1..(n - 1) : ws.log[q].key # key)
                       => /\ key \in DOMAIN ws.headers <=> key \in DOMAIN pre.headers
                          /\ key \in DOMAIN ws.headers
                               => ws.headers[key] = pre.headers[key]

\* The list x, y renamed to a text that is too long, u is registered for A
\* at (0, 5): the header of x is written and x is registered, the write of
\* the header of y fails, and u, whose column is inside the grid, has
\* neither a header cell nor an entry.
RegistrationAbortWitness ==
    /\ last.op = "serialize_headers_with_options"
    /\ last.hdrs = ListLongName
    /\ ws.err = "MaxStringLengthExceeded"
    /\ Len(ws.log) = 2
    /\ CellIs(ws, 0, 5, "x")
    /\ ColIs(ws, "A", "x", 5)
    /\ <<0, 6>> \notin DOMAIN ws.cells
    /\ <<0, 7>> \notin DOMAIN ws.cells
    /\ <<"A", "y">> \notin DOMAIN ws.headers
    /\ <<"A", "u">> \notin DOMAIN ws.headers

\* C34: a registration with hidden headers, a first cell inside the grid
\* and a struct name succeeds, writes nothing and registers every
\* descriptor that is not skipped at start_col + its index, inside the grid
\* or not; a write request of serialize() for a column outside the grid
\* fails, is the last of the call and the call returns the bounds error;
\* and a registration with visible headers of a list with a descriptor that
\* is not skipped beyond the grid does not succeed, and returns the bounds
\* error when no header text before it is too long.
HiddenSkipsColumnCheck ==
    /\ (/\ IsRegistration(last)
        /\ AnyHidden(last.hdrs)
        /\ check_dimensions_only(last.row, last.col)
        /\ last.name # "")
       => /\ ws.err = "Ok"
          /\ ws.log = <<>>
          /\ ws.cells = pre.cells
          /\ \A i \in 1..Len(last.hdrs) :
               IsLastOf(last.hdrs, i)
               => /\ RowIs(ws, last.name, last.hdrs[i].field_name, last.row)
                  /\ ColIs(ws, last.name, last.hdrs[i].field_name, last.col + i - 1)
    /\ last.op = "serialize"
       => \A j \in 1..Len(ws.log) :
            ws.log[j].col >= ColMax
            => /\ ~ws.log[j].ok
               /\ j = Len(ws.log)
               /\ ws.err = "RowColumnLimitError"
    /\ (/\ IsRegistration(last)
        /\ ~AnyHidden(last.hdrs)
        /\ check_dimensions_only(last.row, last.col)
        /\ last.name # ""
        /\ \E i \in NotSkipped(last.hdrs) : last.col + i - 1 >= ColMax)
       => /\ ws.err \in {"RowColumnLimitError", "MaxStringLengthExceeded"}
          /\ (\A i \in NotSkipped(last.hdrs) : Len(last.hdrs[i].header_name) <= MaxStringLen)
               => ws.err = "RowColumnLimitError"

\* x and y of A were registered with hidden headers at the last column of
\* the grid, so y has the column after it; a record of A is serialized: x
\* is written, the write of y fails with the bounds error.
HiddenSkipsColumnCheckWitness ==
    /\ last.op = "serialize"
    /\ last.value = RecA1
    /\ ColIs(pre, "A", "x", ColMax - 1)
    /\ ColIs(pre, "A", "y", ColMax)
    /\ RowIs(pre, "A", "y", RowMax - 1)
    /\ Len(ws.log) = 2
    /\ ws.log[1].ok
    /\ ~ws.log[2].ok
    /\ ws.log[2].col = ColMax
    /\ ws.err = "RowColumnLimitError"

\* C35: a successful registration with visible headers of a list that names
\* a field at two positions, neither skipped, has written the header at the
\* column of both positions and holds one entry for the field, with the
\* column of the later position; a completed serialize() of a record writes
\* a registered field that holds a scalar once, in the entry's column.
DuplicateField ==
    /\ (IsRegistration(last) /\ ws.err = "Ok" /\ ~AnyHidden(last.hdrs))
       => \A i, k \in NotSkipped(last.hdrs) :
            (/\ i < k
             /\ last.hdrs[i].field_name = last.hdrs[k].field_name
             /\ IsLastOf(last.hdrs, k))
            => /\ Len(ws.log) = Cardinality(NotSkipped(last.hdrs))
               /\ CellIs(ws, last.row, last.col + i - 1, last.hdrs[i].header_name)
               /\ CellIs(ws, last.row, last.col + k - 1, last.hdrs[k].header_name)
               /\ ws.log[NotSkippedBefore(last.hdrs, i) + 1].ok
               /\ ws.log[NotSkippedBefore(last.hdrs, k) + 1].ok
               /\ ColIs(ws, last.name, last.hdrs[i].field_name, last.col + k - 1)
               /\ RowIs(ws, last.name, last.hdrs[i].field_name, last.row + 1)
    /\ (last.op = "serialize" /\ ws.err = "Ok" /\ IsRecord(last.value))
       => \A i \in 1..Len(last.value.k) :
            LET key == <<last.value.n, last.value.k[i]>> IN
            (key \in DOMAIN pre.headers /\ IsPlain(last.value.c[i]))
            => /\ Cardinality(WritesOf(ws, key)) = 1
               /\ \A j \in WritesOf(ws, key) : ws.log[j].col = pre.headers[key].col

\* The list x, y, x was registered for A at (0, 0) and a record of A is
\* serialized: the header of x is in columns 0 and 2, the value of x is in
\* column 2 only.
DuplicateFieldWitness ==
    /\ last.op = "serialize"
    /\ last.value = RecA1
    /\ ws.err = "Ok"
    /\ CellIs(ws, 0, 0, "x")
    /\ CellIs(ws, 0, 1, "y")
    /\ CellIs(ws, 0, 2, "x")
    /\ ColIs(pre, "A", "x", 2)
    /\ RowIs(pre, "A", "x", 1)
    /\ CellIs(ws, 1, 2, "a")
    /\ <<1, 0>> \notin DOMAIN ws.cells
    /\ Cardinality(WritesOf(ws, <<"A", "x">>)) = 1

\* C36: no key of the registry has an empty struct name; so a serialize()
\* of a value with no struct in it, on a worksheet whose serializer has
\* traversed no struct, makes no write request and leaves the cells and the
\* registry as they were.
NoEmptyStructKey ==
    /\ \A key \in DOMAIN ws.headers : key[1] # ""
    /\ (last.op = "serialize" /\ pre.current_struct = "" /\ ~HasStruct(last.value))
       => /\ ws.log = <<>>
          /\ ws.err = "Ok"
          /\ ws.cells = pre.cells
          /\ ws.headers = pre.headers

\* A is registered and a sequence of None and a string is serialized before
\* any struct: nothing is written and the rows stay where they were.
NoEmptyStructKeyWitness ==
    /\ last.op = "serialize"
    /\ last.value = SeqOf(<<None, Str("t")>>)
    /\ pre.current_struct = ""
    /\ RowIs(pre, "A", "x", 1)
    /\ RowIs(ws, "A", "x", 1)
    /\ ws.log = <<>>
    /\ ws.cells = pre.cells

\* C37: a registration whose first cell is outside the grid and whose
\* struct name is empty returns the bounds error, not the parameter error.
BoundsBeforeName ==
    (/\ IsRegistration(last)
     /\ last.name = ""
     /\ ~check_dimensions_only(last.row, last.col))
    => ws.err = "RowColumnLimitError"

\* serialize_headers_with_options is called with an empty struct name and a
\* row outside the grid.
BoundsBeforeNameWitness ==
    /\ last.op = "serialize_headers_with_options"
    /\ last.name = ""
    /\ last.row = RowMax
    /\ ws.err = "RowColumnLimitError"
    /\ ws.headers = pre.headers
    /\ ws.cells = pre.cells

\* C38: every write request of a serialize() call, whatever the value, is
\* made in the column of the entry its lookup resolved and at the row that
\* entry had before the call plus the number of earlier lookups of the call
\* that resolved it; the cursor the worksheet held before the call, where
\* the row added after a sequence element (a failed one too) is left, does
\* not change the requests, the cells, the registry or the result.
CellFromEntryOnly ==
    last.op = "serialize"
    => /\ \A j \in 1..Len(ws.log) :
            LET key == ws.log[j].key IN
            /\ key \in DOMAIN pre.headers
            /\ ws.log[j].col = pre.headers[key].col
            /\ ws.log[j].row =
                 pre.headers[key].row
                 + Cardinality({q \in 1..(j - 1) : ws.log[q].key = key})
       /\ LET elsewhere == Worksheet_serialize(
                               [pre EXCEPT !.current_row = RowMax, !.current_col = ColMax],
                               last.value)
          IN /\ elsewhere.log = ws.log
             /\ elsewhere.cells = ws.cells
             /\ elsewhere.headers = ws.headers
             /\ elsewhere.err = ws.err

\* A sequence of records failed at the x of its second record and left the
\* cursor at row 3; the next record is serialized: its y is written at row
\* 2, the row of the entry of y.
CellFromEntryOnlyWitness ==
    /\ last.op = "serialize"
    /\ last.value = RecA1
    /\ pre.err = "MaxStringLengthExceeded"
    /\ pre.current_row = 3
    /\ RowIs(pre, "A", "x", 3)
    /\ RowIs(pre, "A", "y", 2)
    /\ Len(ws.log) = 2
    /\ ws.log[1].row = 3
    /\ ws.log[2].row = 2
    /\ ws.log[2].ok

====
